---- MODULE Spec2Model ----
(***************************************************************************)
(* Route matching and waypoint projection of the maritime route finder.    *)
(*                                                                         *)
(* One finder instance is modelled: its three lane lists and three spatial *)
(* indices (RouteFinder, BetterRouteFinder and maritime.RouteDataLoader    *)
(* hold the same six fields), the matcher in its three source variants,    *)
(* the threshold-escalating search loop, the two waypoint walks and the    *)
(* port oracle.                                                            *)
(*                                                                         *)
(* Geometry.  A coordinate is <<lon, lat>> in whole arc-minutes, so that   *)
(* the code's planar conversion "degrees * 60" gives whole nautical miles. *)
(* Lanes and paths are axis-aligned polylines whose east-west segments lie *)
(* on the equator: on these the spherical bearing formula of               *)
(* calculate_heading gives exactly 0, 90, 180 or 270, and planar lengths   *)
(* are integers, so the matcher's comparisons are computed exactly.  The   *)
(* waypoint walk measures from points it has interpolated; the rounding of *)
(* those points is part of its model (Roundings).                          *)
(***************************************************************************)
EXTENDS Integers, Sequences, FiniteSets, TLC

(***************************************************************************)
(* Program constants                                                       *)
(***************************************************************************)
DEG_TO_NM == 60
BETTER_SEGMENT_NM_X10 == 534
HEADING_WEIGHT_X10 == 9
DISTANCE_WEIGHT_X10 == 1
INITIAL_DISTANCE_THRESHOLD == 5
INITIAL_HEADING_THRESHOLD == 5
DISTANCE_THRESHOLD_STEP == 25
HEADING_THRESHOLD_STEP == 5
MAX_DISTANCE_THRESHOLD == 100
MAX_HEADING_THRESHOLD == 45
ADVANCE_NM == 10
DEFAULT_NUM_CANDIDATES == 10
FULL_CIRCLE == 360
REVERSE_LOW == 90
REVERSE_HIGH == 270

\* Grid resolution: one unit per nautical mile of the planar conversion.
UnitsPerDegree == DEG_TO_NM
\* Lengths of the waypoint walks are kept in this many parts of a nautical
\* mile, so that "degrees * 60" and "degrees * 53.4" are both whole numbers.
LengthScale == 10 * UnitsPerDegree
\* Longitude wraps at the antimeridian (geopy normalises to [-180, 180)).
HalfTurn == (FULL_CIRCLE \div 2) * UnitsPerDegree

(***************************************************************************)
(* Bounds of the model                                                     *)
(***************************************************************************)
\* The failed-attempt counter of the search loop saturates here.
AttemptsCap == 10
\* Most lanes a catalog may hold over its three classes.
MaxRoutes == 3
\* Largest requested waypoint count.
MaxCount == 5
\* Waypoints recorded by a running walk; later ones are counted as the last.
WalkCap == 8

\* Python's None: as a route type, as a lane, and as a spatial index.
None == "None"
NoRoute == << >>
NoIndex == [ built |-> FALSE, bounds |-> << >> ]

(***************************************************************************)
(* Arithmetic and planar geometry                                          *)
(***************************************************************************)
Abs(n) == IF n < 0 THEN -n ELSE n
Min2(a, b) == IF a <= b THEN a ELSE b
Max2(a, b) == IF a >= b THEN a ELSE b
Clamp(v, lo, hi) == Max2(lo, Min2(v, hi))

\* Point.distance(...) * 60, squared: planar degree distance in nautical miles.
DistanceNm2(p, q) ==
    LET dx == (Abs(p[1] - q[1]) * DEG_TO_NM) \div UnitsPerDegree
        dy == (Abs(p[2] - q[2]) * DEG_TO_NM) \div UnitsPerDegree
    IN dx * dx + dy * dy

\* LineString([a, b]).length in grid units (the segment is axis-aligned).
SegmentLength(a, b) == Abs(a[1] - b[1]) + Abs(a[2] - b[2])

\* The point of segment a-b nearest to p (axis-aligned segment).
NearestOnSegment(a, b, p) ==
    << Clamp(p[1], Min2(a[1], b[1]), Max2(a[1], b[1])),
       Clamp(p[2], Min2(a[2], b[2]), Max2(a[2], b[2])) >>

\* Cumulative length of the first k segments of a polyline.
RECURSIVE CumulativeLength(_, _)
CumulativeLength(coords, k) ==
    IF k = 0 THEN 0
    ELSE CumulativeLength(coords, k - 1) + SegmentLength(coords[k], coords[k + 1])

\* route.project(point) and route.interpolate(of that): the first segment at
\* minimal distance wins, as in GEOS (strict comparison while scanning).
Project(coords, p) ==
    LET segs == 1 .. (Len(coords) - 1)
        near(i) == NearestOnSegment(coords[i], coords[i + 1], p)
        d2(i) == DistanceNm2(p, near(i))
        best == CHOOSE i \in segs :
                    /\ \A j \in segs : d2(i) <= d2(j)
                    /\ \A j \in segs : j < i => d2(j) > d2(i)
    IN [ proj_distance |-> CumulativeLength(coords, best - 1)
                             + SegmentLength(coords[best], near(best)),
         nearest_point |-> near(best),
         distance2 |-> d2(best) ]

\* math.degrees(math.atan2(x, y)) of the spherical bearing terms, to the whole
\* degree, in (-180, 180].  Identical points give atan2(0, 0) = 0; a meridian
\* pair gives 0 or 180; a pair on the equator gives 90 or -90.  The lanes and
\* paths of this model have no other segments; other pairs are given the
\* quadrant's diagonal, which is their bearing to the whole degree when the
\* differences in longitude and latitude are equal in size and small.
Atan2Degrees(a, b) ==
    LET dx == b[1] - a[1]
        dy == b[2] - a[2]
    IN IF dx = 0 /\ dy = 0 THEN 0
       ELSE IF dx = 0 THEN (IF dy > 0 THEN 0 ELSE 180)
       ELSE IF dy = 0 THEN (IF dx > 0 THEN 90 ELSE -90)
       ELSE IF dx > 0 THEN (IF dy > 0 THEN 45 ELSE 135)
       ELSE (IF dy > 0 THEN -45 ELSE -135)

\* A faulty calculate_heading: the bearing is returned as atan2 gives it.
CalculateHeadingRaw(a, b) == Atan2Degrees(a, b)

\* calculate_heading / _calculate_heading: (heading + 360) % 360
CalculateHeading(a, b) == (Atan2Degrees(a, b) + FULL_CIRCLE) % FULL_CIRCLE

\* A faulty difference: the absolute value is left out.
CircularDifferenceSigned(h1, h2) ==
    Min2(h1 - h2, FULL_CIRCLE - (h1 - h2))

\* heading_diff = abs(h1 - h2); min(heading_diff, 360 - heading_diff)
CircularDifference(h1, h2) ==
    Min2(Abs(h1 - h2), FULL_CIRCLE - Abs(h1 - h2))

\* line.bounds of a lane: <<minx, miny, maxx, maxy>>
RECURSIVE BoundsUpTo(_, _)
BoundsUpTo(coords, k) ==
    IF k = 1 THEN << coords[1][1], coords[1][2], coords[1][1], coords[1][2] >>
    ELSE LET b == BoundsUpTo(coords, k - 1)
         IN << Min2(b[1], coords[k][1]), Min2(b[2], coords[k][2]),
               Max2(b[3], coords[k][1]), Max2(b[4], coords[k][2]) >>
Bounds(coords) == BoundsUpTo(coords, Len(coords))

\* Squared distance from a point to a bounding box (rtree's nearest metric).
BoxDistance2(b, p) ==
    LET dx == Max2(0, Max2(b[1] - p[1], p[1] - b[3]))
        dy == Max2(0, Max2(b[2] - p[2], p[2] - b[4]))
    IN dx * dx + dy * dy

(***************************************************************************)
(* The catalog: three lane lists and three spatial indices                 *)
(***************************************************************************)
MAJOR == "Major"
MIDDLE == "Middle"
MINOR == "Minor"
RouteTypes == << MAJOR, MIDDLE, MINOR >>

VARIABLES
    major, middle, minor,           \* lists of lanes (each a sequence of coordinates)
    major_idx, middle_idx, minor_idx, \* NoIndex, or the bounds inserted at build time
    pc,                             \* "idle", or the loop the program is in
    ret,                            \* record of the last completed call
    args,                           \* arguments of the running search call
    current,                        \* current_lon, current_lat of the search loop
    distance_threshold, heading_threshold,
    attempts,                       \* failed attempts of the running search so far
    solver_calls,                   \* route-graph solver calls of the running call
    walk                            \* locals of the running WaypointCalculator walk

vars == << major, middle, minor, major_idx, middle_idx, minor_idx, pc, ret,
           args, current, distance_threshold, heading_threshold,
           attempts, solver_calls, walk >>

catalogVars == << major, middle, minor, major_idx, middle_idx, minor_idx >>
searchVars == << args, current, distance_threshold, heading_threshold,
                 attempts, solver_calls >>

Catalog == [ major |-> major, middle |-> middle, minor |-> minor,
             major_idx |-> major_idx, middle_idx |-> middle_idx,
             minor_idx |-> minor_idx ]

\* build_spatial_index: one entry, the lane's bounds, per list position.
BuildSpatialIndex(routes) ==
    [ built |-> TRUE, bounds |-> [ i \in 1 .. Len(routes) |-> Bounds(routes[i]) ] ]

\* A feature without the keys _process_features reads (no 'properties', no
\* 'geometry'): feature['properties']['Type'] raises KeyError.
MALFORMED == "Malformed"

\* _process_features: a LineString adds one lane, a MultiLineString its parts,
\* to the list of the feature's Type; any other Type is dropped.  The lists
\* are extended feature by feature; at a malformed feature the loop is left
\* by KeyError with the lists as they then are.
RECURSIVE ProcessFeatures(_, _)
ProcessFeatures(lists, features) ==
    IF features = << >> THEN lists
    ELSE IF Head(features).type = MALFORMED THEN [ lists EXCEPT !.status = "KeyError" ]
    ELSE LET f == Head(features)
             next == [ lists EXCEPT
                         !.major = IF f.type = MAJOR THEN @ \o f.lines ELSE @,
                         !.middle = IF f.type = MIDDLE THEN @ \o f.lines ELSE @,
                         !.minor = IF f.type = MINOR THEN @ \o f.lines ELSE @ ]
         IN ProcessFeatures(next, Tail(features))

\* idx.nearest((lon, lat, lon, lat), num_candidates): the ids whose bounding
\* box is among the num_candidates nearest, ties at the last rank included.
Nearest(idx, p, num_candidates) ==
    { i \in DOMAIN idx.bounds :
        Cardinality({ j \in DOMAIN idx.bounds :
                        BoxDistance2(idx.bounds[j], p) < BoxDistance2(idx.bounds[i], p) })
          < num_candidates }

\* A faulty _find_single_route: a lane exactly at the threshold is refused.
FindSingleRouteStrict(idx, routes, p, threshold, num_candidates) ==
    IF ~ idx.built THEN [ status |-> "AttributeError" ]
    ELSE
      LET cands == Nearest(idx, p, num_candidates)
          pr(i) == Project(routes[i], p)
      IN IF cands = {} THEN [ status |-> "none" ]
         ELSE
           LET closest_id == CHOOSE i \in cands : \A j \in cands :
                               \/ pr(i).distance2 < pr(j).distance2
                               \/ pr(i).distance2 = pr(j).distance2 /\ i <= j
               c == pr(closest_id)
           IN IF c.distance2 < threshold * threshold
              THEN [ status |-> "found",
                     route_id |-> closest_id,
                     proj_distance |-> c.proj_distance,
                     nearest_point |-> c.nearest_point,
                     distance2 |-> c.distance2 ]
              ELSE [ status |-> "none" ]

\* _find_single_route.  Candidates are visited by bounding-box distance, then
\* id; the strict "<" keeps the first of several equally distant lanes.
FindSingleRoute(idx, routes, p, threshold, num_candidates) ==
    IF ~ idx.built THEN [ status |-> "AttributeError" ]   \* None has no .nearest
    ELSE
      LET cands == Nearest(idx, p, num_candidates)
          pr(i) == Project(routes[i], p)
          before(i, j) ==
              \/ BoxDistance2(idx.bounds[i], p) < BoxDistance2(idx.bounds[j], p)
              \/ BoxDistance2(idx.bounds[i], p) = BoxDistance2(idx.bounds[j], p) /\ i <= j
      IN IF cands = {} THEN [ status |-> "none" ]
         ELSE
           LET closest_id == CHOOSE i \in cands : \A j \in cands :
                               \/ pr(i).distance2 < pr(j).distance2
                               \/ pr(i).distance2 = pr(j).distance2 /\ before(i, j)
               c == pr(closest_id)
           IN IF c.distance2 <= threshold * threshold
              THEN [ status |-> "found",
                     route_id |-> closest_id,
                     proj_distance |-> c.proj_distance,
                     nearest_point |-> c.nearest_point,
                     distance2 |-> c.distance2 ]
              ELSE [ status |-> "none" ]

\* Python's truth value of a route_type argument: None and the empty string
\* are false.
Truthy(route_type) == route_type # None /\ route_type # ""

\* A faulty get_route_by_id: the global resolution does not offset the index
\* by the counts of the earlier classes.
GetRouteByIdNoOffset(cat, route_id, route_type) ==
    LET idx == route_id - 1
    IN IF Truthy(route_type)
       THEN IF route_type = MAJOR /\ 0 <= idx /\ idx < Len(cat.major)
              THEN cat.major[idx + 1]
            ELSE IF route_type = MIDDLE /\ 0 <= idx /\ idx < Len(cat.middle)
              THEN cat.middle[idx + 1]
            ELSE IF route_type = MINOR /\ 0 <= idx /\ idx < Len(cat.minor)
              THEN cat.minor[idx + 1]
            ELSE NoRoute
       ELSE IF 0 <= idx /\ idx < Len(cat.major)
              THEN cat.major[idx + 1]
            ELSE IF 0 <= idx /\ idx < Len(cat.middle)
              THEN cat.middle[idx + 1]
            ELSE IF 0 <= idx /\ idx < Len(cat.minor)
              THEN cat.minor[idx + 1]
            ELSE NoRoute

\* _get_route_by_id / get_route_by_id (route_id is 1-based).
GetRouteById(cat, route_id, route_type) ==
    LET idx == route_id - 1
        nMajor == Len(cat.major)
        nMiddle == Len(cat.middle)
        nMinor == Len(cat.minor)
    IN IF Truthy(route_type)
       THEN IF route_type = MAJOR /\ 0 <= idx /\ idx < nMajor
              THEN cat.major[idx + 1]
            ELSE IF route_type = MIDDLE /\ 0 <= idx /\ idx < nMiddle
              THEN cat.middle[idx + 1]
            ELSE IF route_type = MINOR /\ 0 <= idx /\ idx < nMinor
              THEN cat.minor[idx + 1]
            ELSE NoRoute
       ELSE IF 0 <= idx /\ idx < nMajor
              THEN cat.major[idx + 1]
            ELSE IF 0 <= idx - nMajor /\ idx - nMajor < nMiddle
              THEN cat.middle[idx - nMajor + 1]
            ELSE IF 0 <= idx - nMajor - nMiddle /\ idx - nMajor - nMiddle < nMinor
              THEN cat.minor[idx - nMajor - nMiddle + 1]
            ELSE NoRoute

\* get_route_endpoints
GetRouteEndpoints(cat, route_id, route_type) ==
    LET route == GetRouteById(cat, route_id, route_type)
    IN IF route = NoRoute THEN [ found |-> FALSE ]
       ELSE [ found |-> TRUE, start |-> route[1], end |-> route[Len(route)] ]

\* The segment get_next_waypoints_internal settles on (0-based): the last
\* segment whose cumulative range holds proj_distance, 0 when there is none.
CurrentSegmentIdx(coords, proj_distance) ==
    LET hits == { i \in 0 .. (Len(coords) - 2) :
                    /\ CumulativeLength(coords, i) <= proj_distance
                    /\ proj_distance <= CumulativeLength(coords, i + 1) }
    IN IF hits = {} THEN 0 ELSE CHOOSE i \in hits : \A j \in hits : j <= i

\* A faulty reverse test: the upper limit is left out.
ReverseTestOpen(hdg, segment_heading) ==
    Abs(hdg - segment_heading) > REVERSE_LOW

\* heading_diff = abs(heading - segment_heading);
\* if heading_diff > 90 and heading_diff < 270: forward_direction = False
ReverseTest(hdg, segment_heading) ==
    /\ Abs(hdg - segment_heading) > REVERSE_LOW
    /\ Abs(hdg - segment_heading) < REVERSE_HIGH

\* The direction test of get_next_waypoints_internal.
ForwardDirection(coords, current_segment_idx, hdg) ==
    LET segment_heading == CalculateHeading(coords[current_segment_idx + 1],
                                            coords[current_segment_idx + 2])
    IN ~ ( current_segment_idx < Len(coords) - 1
           /\ ReverseTest(hdg, segment_heading) )

\* A faulty get_next_waypoints_internal: the forward range starts at the
\* segment's first vertex.
GetNextWaypointsInternalFromIdx(coords, point, hdg, num_waypoints) ==
    LET n == Len(coords)
        idx == CurrentSegmentIdx(coords, Project(coords, point).proj_distance)
        stop == Min2(n, idx + num_waypoints)
        low == Max2(-1, idx - num_waypoints)
        waypoints ==
            IF ForwardDirection(coords, idx, hdg)
            THEN [ j \in 1 .. Max2(0, stop - idx) |-> coords[idx + j] ]
            ELSE [ j \in 1 .. Max2(0, idx - low) |-> coords[idx + 2 - j] ]
    IN SubSeq(waypoints, 1, Min2(Len(waypoints), Max2(0, num_waypoints)))

\* get_next_waypoints_internal / _get_next_waypoints_internal
GetNextWaypointsInternal(coords, point, hdg, num_waypoints) ==
    LET n == Len(coords)
        idx == CurrentSegmentIdx(coords, Project(coords, point).proj_distance)
        stop == Min2(n, idx + num_waypoints + 1)      \* forward: idx+1 .. stop-1
        low == Max2(-1, idx - num_waypoints)           \* reverse: idx .. low+1
        waypoints ==
            IF ForwardDirection(coords, idx, hdg)
            THEN [ j \in 1 .. Max2(0, stop - (idx + 1)) |-> coords[idx + 1 + j] ]
            ELSE [ j \in 1 .. Max2(0, idx - low) |-> coords[idx + 2 - j] ]
    IN SubSeq(waypoints, 1, Min2(Len(waypoints), Max2(0, num_waypoints)))

(***************************************************************************)
(* The matcher: find_nearest_route_with_heading                            *)
(***************************************************************************)
ROUTE_FINDER == "RouteFinder"               \* src/route_finder.py
BETTER == "BetterRouteFinder"               \* src/better_route_finder.py
MARITIME == "maritime.RouteFinder"          \* src/maritime/route_finder.py
Variants == { ROUTE_FINDER, BETTER, MARITIME }

ClassIndex(cat, t) ==
    IF t = MAJOR THEN cat.major_idx
    ELSE IF t = MIDDLE THEN cat.middle_idx ELSE cat.minor_idx
ClassRoutes(cat, t) ==
    IF t = MAJOR THEN cat.major
    ELSE IF t = MIDDLE THEN cat.middle ELSE cat.minor

\* The loop of RouteFinder.find_nearest_route over route_configs from class i
\* on; best is best_result (None before any class has given one).
RECURSIVE NearestScan(_, _, _, _, _, _, _)
NearestScan(cat, p, dist_thr, num_candidates, all_routes, i, best) ==
    IF i > 3 THEN best
    ELSE CHOOSE after \in
      { IF result.status = "AttributeError" THEN [ status |-> "raise", error |-> result.status ]
        ELSE CHOOSE next \in
          { IF ~ all_routes /\ taken.status = "found" THEN taken
            ELSE NearestScan(cat, p, dist_thr, num_candidates, all_routes, i + 1, taken) :
              taken \in { IF result.status = "found"
                             /\ (best.status # "found" \/ result.distance2 < best.distance2)
                          THEN [ status |-> "found", route_type |-> RouteTypes[i],
                                 route_id |-> result.route_id,
                                 nearest_point |-> result.nearest_point,
                                 distance2 |-> result.distance2 ]
                          ELSE best } } : TRUE :
          result \in { FindSingleRoute(ClassIndex(cat, RouteTypes[i]),
                                       ClassRoutes(cat, RouteTypes[i]), p,
                                       dist_thr, num_candidates) } } : TRUE

\* A faulty find_nearest_route: all_routes is ignored and the globally nearest
\* lane is always returned.
FindNearestRouteGlobal(cat, p, dist_thr, num_candidates, all_routes) ==
    NearestScan(cat, p, dist_thr, num_candidates, TRUE, 1, [ status |-> "none" ])

\* RouteFinder.find_nearest_route
FindNearestRoute(cat, p, dist_thr, num_candidates, all_routes) ==
    NearestScan(cat, p, dist_thr, num_candidates, all_routes, 1, [ status |-> "none" ])

\* The entry appended to all_routes (accepted) or to all_route_error, with the
\* endpoints as the code orients them.
CandidateEntry(t, result, endpoints, route_heading, heading_diff, head_thr) ==
    [ status |-> IF heading_diff <= head_thr THEN "accepted" ELSE "rejected",
      route_type |-> t,
      route_id |-> result.route_id,
      distance2 |-> result.distance2,
      nearest_point |-> result.nearest_point,
      heading_diff |-> heading_diff,
      route_heading |-> route_heading,
      starting_point |-> IF heading_diff <= head_thr THEN endpoints.end
                         ELSE endpoints.start,
      ending_point |-> IF heading_diff <= head_thr THEN endpoints.start
                       ELSE endpoints.end ]

\* One pass of the matcher's loop over route_configs, for one class.  The
\* locals result, next_points and route_heading are bound once each.
ClassCandidate(variant, cat, t, p, hdg, dist_thr, head_thr, num_candidates) ==
    IF variant = MARITIME /\ ~ ClassIndex(cat, t).built
    THEN [ status |-> "none" ]                           \* if idx is None: continue
    ELSE CHOOSE entry \in
      { IF result.status # "found" THEN [ status |-> result.status ]
        ELSE CHOOSE found \in
          { IF next_points = << >> THEN [ status |-> "none" ]
            ELSE CHOOSE judged \in
              { CandidateEntry(t, result,
                               GetRouteEndpoints(cat, result.route_id, t),
                               route_heading,
                               CircularDifference(hdg, route_heading), head_thr) :
                  route_heading \in
                    { CalculateHeading(result.nearest_point, next_points[1]) } } :
              TRUE :
              next_points \in
                { GetNextWaypointsInternal(GetRouteById(cat, result.route_id, t),
                                           result.nearest_point, hdg, 1) } } :
          TRUE :
          result \in { FindSingleRoute(ClassIndex(cat, t), ClassRoutes(cat, t), p,
                                       dist_thr, num_candidates) } } :
      TRUE

\* sqrt(b) > sqrt(a) + m and sqrt(a) >= sqrt(b) + k, for naturals; the guards
\* keep the squares small.
SqrtGreater(b, a, m) ==
    /\ m * m <= b
    /\ b - a - m * m > 0
    /\ (b - a - m * m) * (b - a - m * m) > 4 * m * m * a
SqrtAtLeast(a, b, k) ==
    /\ k * k <= a
    /\ a - b - k * k >= 0
    /\ (a - b - k * k) * (a - b - k * k) >= 4 * k * k * b

\* The sort key (heading_diff * 0.9 + distance_nm * 0.1) / 2.0 of x is
\* strictly below that of y.
ScoreLess(x, y) ==
    LET k == HEADING_WEIGHT_X10 * (y.heading_diff - x.heading_diff)
        a == DISTANCE_WEIGHT_X10 * DISTANCE_WEIGHT_X10 * x.distance2
        b == DISTANCE_WEIGHT_X10 * DISTANCE_WEIGHT_X10 * y.distance2
    IN IF k <= 0 THEN SqrtGreater(b, a, -k) ELSE ~ SqrtAtLeast(a, b, k)

\* The route-graph solver (searoute): a continuous path from origin to
\* destination, both appended, or an exception.
SolverOutcomes == { "lon_first", "lat_first", "raise" }
SolverPath(origin, destination, outcome) ==
    IF outcome = "lon_first"
    THEN << origin, << destination[1], origin[2] >>, destination >>
    ELSE << origin, << origin[1], destination[2] >>, destination >>

\* The loop over route_configs: what each class contributes, in class order.
Candidates(variant, cat, p, hdg, dist_thr, head_thr, num_candidates) ==
    [ i \in 1 .. 3 |-> ClassCandidate(variant, cat, RouteTypes[i], p, hdg,
                                      dist_thr, head_thr, num_candidates) ]

\* A faulty selection: among equal scores the later class is taken.
BestRouteLast(cand) ==
    LET all_routes == { i \in 1 .. 3 : cand[i].status = "accepted" }
    IN cand[CHOOSE i \in all_routes :
              /\ \A j \in all_routes : ~ ScoreLess(cand[j], cand[i])
              /\ \A j \in all_routes : j > i => ScoreLess(cand[i], cand[j])]

\* sorted(all_routes, key=...)[0]: the lowest score, the earlier class first
\* among equal scores (the sort is stable).
BestRoute(cand) ==
    LET all_routes == { i \in 1 .. 3 : cand[i].status = "accepted" }
    IN cand[CHOOSE i \in all_routes :
              /\ \A j \in all_routes : ~ ScoreLess(cand[j], cand[i])
              /\ \A j \in all_routes : j < i => ScoreLess(cand[i], cand[j])]

\* A faulty matcher: the solver's exception is swallowed and the call answers
\* none.
OutcomeSwallowing(variant, p, solver, cand) ==
    IF \E i \in 1 .. 3 : cand[i].status = "AttributeError"
    THEN [ status |-> "raise", error |-> "AttributeError", solver_calls |-> 0 ]
    ELSE IF \A i \in 1 .. 3 : cand[i].status # "accepted"
    THEN [ status |-> "none", solver_calls |-> 0 ]
    ELSE IF variant = ROUTE_FINDER
    THEN [ status |-> "match", best |-> BestRoute(cand), solver_calls |-> 0 ]
    ELSE IF solver = "raise"
    THEN [ status |-> "none", best |-> BestRoute(cand),
           solver_calls |-> 1, solver_origin |-> p,
           solver_destination |-> BestRoute(cand).ending_point ]
    ELSE [ status |-> "match", best |-> BestRoute(cand),
           solver_calls |-> 1, solver_origin |-> p,
           solver_destination |-> BestRoute(cand).ending_point,
           coordinates |-> SolverPath(p, BestRoute(cand).ending_point, solver) ]

\* What the matcher does with the candidates: the call returns or raises;
\* the record keeps the chosen candidate and the solver's use.
Outcome(variant, p, solver, cand) ==
    IF \E i \in 1 .. 3 : cand[i].status = "AttributeError"
    THEN [ status |-> "raise", error |-> "AttributeError", solver_calls |-> 0 ]
    ELSE IF \A i \in 1 .. 3 : cand[i].status # "accepted"
    THEN [ status |-> "none", solver_calls |-> 0 ]
    ELSE IF variant = ROUTE_FINDER
    THEN [ status |-> "match", best |-> BestRoute(cand), solver_calls |-> 0 ]
    ELSE IF solver = "raise"
    THEN [ status |-> "raise", error |-> "SolverError", best |-> BestRoute(cand),
           solver_calls |-> 1, solver_origin |-> p,
           solver_destination |-> BestRoute(cand).ending_point ]
    ELSE [ status |-> "match", best |-> BestRoute(cand),
           solver_calls |-> 1, solver_origin |-> p,
           solver_destination |-> BestRoute(cand).ending_point,
           coordinates |-> SolverPath(p, BestRoute(cand).ending_point, solver) ]

\* find_nearest_route_with_heading
FindNearestRouteWithHeading(variant, cat, p, hdg, dist_thr, head_thr, num_candidates, solver) ==
    CHOOSE route \in
      { Outcome(variant, p, solver, cand) :
          cand \in { Candidates(variant, cat, p, hdg, dist_thr, head_thr,
                                num_candidates) } } :
      TRUE

(***************************************************************************)
(* Waypoint walks                                                          *)
(***************************************************************************)
\* segment.length * 60 (nm_x10 = 600) or * 53.4 (nm_x10 = 534), in parts of
\* a nautical mile (LengthScale).
SegmentLengthNm(a, b, nm_x10) ==
    (SegmentLength(a, b) * nm_x10 * LengthScale) \div (10 * UnitsPerDegree)

\* speed_knot * time_hrs in the same parts.
SpacingNm(speed_knot, time_hrs) == speed_knot * time_hrs * LengthScale

\* get_bisected_point / _get_bisected_point: the point of a-b at distance_nm
\* from a, the chord measured at 60 nm per degree; fraction = distance_nm /
\* total_distance_nm divides by zero when a = b.  interpolate(normalized=True)
\* stops at b.  The point is taken on the grid, toward a.
GetBisectedPoint(a, b, distance_nm) ==
    LET total_units == SegmentLength(a, b)
        total_distance_nm == SegmentLengthNm(a, b, 10 * DEG_TO_NM)
        along == Min2(total_units, (distance_nm * total_units) \div total_distance_nm)
        sx == IF b[1] > a[1] THEN 1 ELSE IF b[1] < a[1] THEN -1 ELSE 0
        sy == IF b[2] > a[2] THEN 1 ELSE IF b[2] < a[2] THEN -1 ELSE 0
    IN IF total_distance_nm = 0 THEN [ status |-> "ZeroDivisionError" ]
       ELSE [ status |-> "ok",
              point |-> << a[1] + sx * along, a[2] + sy * along >> ]

\* The for loop of BetterRouteFinder.get_waypoints from iteration i on
\* (idx is the code's 0-based index into coords; its value when the loop is
\* left is returned with the waypoints).
RECURSIVE BetterWalk(_, _, _, _, _, _, _, _)
BetterWalk(coords, i, idx, current_coord, remaining_distance, waypoints, distance_per_waypoint, num_waypoints) ==
    IF i > Len(coords) - 1 THEN [ status |-> "ok", waypoints |-> waypoints, idx |-> idx ]
    ELSE
      LET segment_length_nm ==
              SegmentLengthNm(current_coord, coords[idx + 1], BETTER_SEGMENT_NM_X10)
      IN IF segment_length_nm < remaining_distance
         THEN IF Len(waypoints) >= num_waypoints
              THEN [ status |-> "ok", waypoints |-> waypoints, idx |-> idx + 1 ]
              ELSE BetterWalk(coords, i + 1, idx + 1, coords[idx + 1],
                              remaining_distance - segment_length_nm, waypoints,
                              distance_per_waypoint, num_waypoints)
         ELSE
           LET b == GetBisectedPoint(current_coord, coords[idx + 1],
                                     remaining_distance)
           IN IF b.status # "ok"
              THEN [ status |-> b.status, waypoints |-> waypoints, idx |-> idx ]
              ELSE IF Len(waypoints) + 1 >= num_waypoints
              THEN [ status |-> "ok", waypoints |-> Append(waypoints, b.point),
                     idx |-> idx ]
              ELSE BetterWalk(coords, i + 1, idx, b.point, distance_per_waypoint,
                              Append(waypoints, b.point),
                              distance_per_waypoint, num_waypoints)

\* BetterRouteFinder.get_waypoints
BetterGetWaypoints(coords, speed_knot, time_hrs, num_waypoints) ==
    IF num_waypoints = 0
    THEN [ status |-> "ZeroDivisionError", waypoints |-> << >>, idx |-> 1 ]
    ELSE LET distance_per_waypoint ==
                 SpacingNm(speed_knot, time_hrs) \div num_waypoints
         IN BetterWalk(coords, 1, 1, coords[1], distance_per_waypoint, << >>,
                       distance_per_waypoint, num_waypoints)

\* Locals of WaypointCalculator.get_waypoints, before its while loop.
WalkStart(coords, speed_knot, time_hrs, num_waypoints) ==
    [ coords |-> coords,
      speed_knot |-> speed_knot,
      time_hrs |-> time_hrs,
      num_waypoints |-> num_waypoints,
      distance_per_waypoint |-> SpacingNm(speed_knot, time_hrs),
      remaining_distance |-> SpacingNm(speed_knot, time_hrs),
      waypoints |-> << >>,
      unrecorded |-> 0,
      current_coord |-> coords[1],
      drift |-> 0,
      idx |-> 1 ]
NoWalk == WalkStart(<< << 0, 0 >> >>, 0, 0, 0)

\* while current_coord != coords[-1]: if idx >= len(coords): break
WalkContinues(w) ==
    /\ w.current_coord # w.coords[Len(w.coords)]
    /\ w.idx < Len(w.coords)

\* Coordinates are doubles.  A vertex of the path is the double it was given
\* as; a point computed by interpolation is the double next to its exact value
\* unless that value is itself a double: a whole number of quarter degrees on
\* this grid.  Which side the computed double lies on depends on the operands'
\* bits, so it is a choice here: -1 short of the exact point, 1 beyond it.
Roundings == { -1, 1 }
Representable(point) ==
    /\ (4 * point[1]) % UnitsPerDegree = 0
    /\ (4 * point[2]) % UnitsPerDegree = 0

\* segment_length_nm < remaining_distance, on doubles.  w.drift is the sign of
\* the error carried by current_coord (and, once a segment has been stepped
\* over, by remaining_distance): a point beyond its exact place leaves a
\* segment shorter than the exact one.  The error is far below one grid unit,
\* so it decides the comparison only when the exact values are equal.
SegmentIsShorter(w, segment_length_nm) ==
    \/ segment_length_nm < w.remaining_distance
    \/ segment_length_nm = w.remaining_distance /\ w.drift > 0

\* One pass of the while loop of WaypointCalculator.get_waypoints; rounding is
\* the side on which a newly interpolated point falls.  interpolate() returns
\* the segment's end itself when the fraction reaches 1.  The first WalkCap
\* waypoints are recorded; of those appended after them only the parity of
\* their number is kept (unrecorded).
WalkBody(w, rounding) ==
    LET target == w.coords[w.idx + 1]
        segment_length_nm == SegmentLengthNm(w.current_coord, target, 10 * DEG_TO_NM)
        b == GetBisectedPoint(w.current_coord, target, w.remaining_distance)
    IN IF SegmentIsShorter(w, segment_length_nm)
       THEN [ status |-> "ok",
              walk |-> [ w EXCEPT !.remaining_distance = @ - segment_length_nm,
                                  !.current_coord = target,
                                  !.idx = @ + 1 ] ]
       ELSE IF b.status # "ok" THEN [ status |-> b.status, walk |-> w ]
       ELSE [ status |-> "ok",
              walk |-> [ w EXCEPT !.waypoints = IF Len(@) < WalkCap
                                                THEN Append(@, b.point) ELSE @,
                                  !.unrecorded = IF Len(w.waypoints) < WalkCap
                                                 THEN @ ELSE 1 - @,
                                  !.current_coord = b.point,
                                  !.drift = IF b.point = target \/ Representable(b.point)
                                            THEN 0 ELSE rounding,
                                  !.remaining_distance = w.distance_per_waypoint ] ]

(***************************************************************************)
(* The port oracle                                                         *)
(***************************************************************************)
PORT_DISTANCE_THRESHOLD == 5
PortQueryOutcomes == { "InsufficientResponseError", "Exception", "empty", "found" }

\* A faulty port check: only InsufficientResponseError is caught.
IsNearPortNarrow(outcome) ==
    IF outcome = "InsufficientResponseError" THEN [ status |-> "ok", value |-> FALSE ]
    ELSE IF outcome = "Exception" THEN [ status |-> "raise", value |-> FALSE ]
    ELSE [ status |-> "ok", value |-> (outcome # "empty") ]

\* PortFinder.is_near_port, given what ox.features_from_point did.
IsNearPort(outcome) ==
    IF outcome = "InsufficientResponseError" THEN [ status |-> "ok", value |-> FALSE ]
    ELSE IF outcome = "Exception" THEN [ status |-> "ok", value |-> FALSE ]
    ELSE [ status |-> "ok", value |-> (outcome # "empty") ]

(***************************************************************************)
(* Inputs of the model                                                     *)
(***************************************************************************)
\* Lanes: east along the equator with an interior vertex; the same stretch
\* listed westward; its continuation to the east, listed westward; a
\* meridian lane going north from the equator.
LaneEast == << << 0, 0 >>, << 30, 0 >>, << 60, 0 >> >>
LaneWest == << << 60, 0 >>, << 0, 0 >> >>
LaneFar == << << 120, 0 >>, << 60, 0 >> >>
LaneNorth == << << 60, 0 >>, << 60, 60 >> >>
\* A lane with a corner, south along a meridian and then east along the
\* equator, whose bounding box holds points far from the lane, and a lane on
\* the meridian of 52 arc-minutes.
LaneHook == << << 30, 60 >>, << 30, 0 >>, << 90, 0 >> >>
LaneShelf == << << 52, 0 >>, << 52, 60 >> >>

\* Feature lists a feature source may serve.
FeatureLists ==
    { << >>,
      << [ type |-> MAJOR, lines |-> << LaneEast >> ] >>,
      << [ type |-> MINOR, lines |-> << LaneNorth >> ] >>,
      << [ type |-> MAJOR, lines |-> << LaneWest >> ],
         [ type |-> MIDDLE, lines |-> << LaneFar >> ] >>,
      << [ type |-> MIDDLE, lines |-> << LaneNorth, LaneWest >> ],
         [ type |-> "Other", lines |-> << LaneEast >> ] >>,
      << [ type |-> MAJOR, lines |-> << LaneHook, LaneShelf >> ],
         [ type |-> MIDDLE, lines |-> << LaneNorth >> ] >>,
      << [ type |-> MAJOR, lines |-> << LaneEast >> ],
         [ type |-> MALFORMED, lines |-> << >> ],
         [ type |-> MIDDLE, lines |-> << LaneFar >> ] >> }

RECURSIVE LaneCount(_)
LaneCount(features) ==
    IF features = << >> THEN 0
    ELSE (IF Head(features).type \in { MAJOR, MIDDLE, MINOR }
          THEN Len(Head(features).lines) ELSE 0) + LaneCount(Tail(features))

QueryPoints == { << 30, 0 >>, << 20, 3 >>, << 20, 30 >>, << 0, 0 >>,
                 << 60, 0 >>, << 63, 0 >>, << 60, 30 >>, << 57, 20 >> }
QueryHeadings == { 0, 90, 180, 270, 357 }
DistanceThresholds == { 5, 50 }
HeadingThresholds == { 5, 45 }
CandidateCounts == { 1, DEFAULT_NUM_CANDIDATES }
\* Thresholds of the nearest-lane calls: below, at and above the distances at
\* which the query points lie from the lanes.
NearestThresholds == { 3, 10, 30, 50 }

\* Paths, points and counts of direct get_next_waypoints_internal calls: the
\* five-vertex eastward line of the tests, a three-vertex line and a line with
\* a corner; points inside a first, a middle and a last segment, off the line
\* and on a vertex.
VertexPaths ==
    { << << 0, 0 >>, << 60, 0 >>, << 120, 0 >>, << 180, 0 >>, << 240, 0 >> >>,
      << << 0, 0 >>, << 60, 0 >>, << 120, 0 >> >>,
      LaneHook }
VertexPoints == { << 90, 0 >>, << 30, 0 >>, << 210, 0 >>, << 90, 5 >>, << 120, 0 >>,
                  << 0, 10 >>, << 40, 30 >> }
VertexCounts == 0 .. 3

\* Coordinates between which a heading is calculated: the origin and a target
\* one degree due north, east, south and west of it.
HeadingCoords == { << 0, 0 >>, << 0, 60 >>, << 60, 0 >>, << 0, -60 >>, << -60, 0 >> }

\* Headings whose difference is taken: the ends of [0, 360), the quarter
\* turns and their neighbours.
SampleHeadings == { 0, 1, 45, 89, 90, 91, 179, 180, 181, 270, 359 }

\* Arguments of direct get_route_by_id calls: ids below, in and above the
\* catalog's range; no class, the empty string, the three classes and a name
\* that is no class.
RouteIds == -1 .. (MaxRoutes + 2)
RouteTypeArgs == { None, "", MAJOR, MIDDLE, MINOR, "Other" }

\* Calls of the search: along the equator or a parallel close to it, where the
\* geodesic destination 10 nm east or west is 10 arc-minutes of longitude
\* (to within a fiftieth of a mile) at the same latitude.
SearchPoints == { << 30, 0 >>, << -30, 0 >> }
SearchHeadings == { 90 }

\* Paths of the walks: their vertices are whole quarter degrees, which doubles
\* hold exactly, so that a path's length is the length the code computes.
WalkPaths == { << << 0, 0 >>, << 60, 0 >> >>,
               << << 0, 0 >>, << 15, 0 >>, << 60, 0 >> >>,
               << << 0, 0 >>, << 30, 0 >>, << 30, 0 >>, << 60, 0 >> >>,
               << << 0, 0 >>, << 30, 0 >>, << 0, 0 >> >>,
               << << 0, 0 >>, << 30, 0 >>, << 30, 30 >> >>,
               << << 0, 0 >>, << 0, 0 >>, << 30, 0 >> >> }
Speeds == { 0, 12, 15, 30 }
Durations == { 1, 2 }
Counts == 1 .. MaxCount

\* Where the world has ports (the ground truth behind the port oracle).
PortSites == { << 120, 0 >> }
PortAdjacent(p, radius) ==
    \E site \in PortSites : DistanceNm2(p, site) <= radius * radius

(***************************************************************************)
(* State machine                                                           *)
(***************************************************************************)
Running == [ op |-> "running" ]
Idle == [ op |-> "idle" ]
\* No call is in progress and the last result has been taken by the caller.
Quiescent == pc = "idle" /\ ret = Idle
NoArgs == [ lon_lat |-> << 0, 0 >>, heading |-> 0, speed_knot |-> 0,
            time_hrs |-> 0, num_waypoints |-> 0 ]

SearchIdle ==
    /\ args' = NoArgs
    /\ current' = << 0, 0 >>
    /\ distance_threshold' = 0
    /\ heading_threshold' = 0
    /\ attempts' = 0
    /\ solver_calls' = 0

Init ==
    /\ major = << >> /\ middle = << >> /\ minor = << >>
    /\ major_idx = NoIndex /\ middle_idx = NoIndex /\ minor_idx = NoIndex
    /\ pc = "idle"
    /\ ret = Idle
    /\ args = NoArgs
    /\ current = << 0, 0 >>
    /\ distance_threshold = 0
    /\ heading_threshold = 0
    /\ attempts = 0
    /\ solver_calls = 0
    /\ walk = NoWalk

\* load_data: the request or the JSON parse fails before anything is stored;
\* otherwise the features are filed and the three indices rebuilt.
LoadData(features, fault) ==
    /\ Quiescent
    /\ Len(major) + Len(middle) + Len(minor) + LaneCount(features) <= MaxRoutes
    /\ IF fault # "none"
       THEN /\ ret' = [ op |-> "load_data", status |-> "raise", error |-> fault ]
            /\ UNCHANGED catalogVars
       ELSE LET lists == ProcessFeatures([ major |-> major, middle |-> middle,
                                           minor |-> minor, status |-> "ok" ],
                                         features)
            IN /\ major' = lists.major
               /\ middle' = lists.middle
               /\ minor' = lists.minor
               /\ IF lists.status = "ok"
                  THEN /\ major_idx' = BuildSpatialIndex(lists.major)
                       /\ middle_idx' = BuildSpatialIndex(lists.middle)
                       /\ minor_idx' = BuildSpatialIndex(lists.minor)
                       /\ ret' = [ op |-> "load_data", status |-> "ok" ]
                  ELSE /\ UNCHANGED << major_idx, middle_idx, minor_idx >>
                       /\ ret' = [ op |-> "load_data", status |-> "raise",
                                   error |-> lists.status ]
    /\ UNCHANGED << pc, searchVars, walk >>

\* A call of find_nearest_route_with_heading of one of the three classes; the
\* solver, if the call comes to use it, answers in one of its ways.
Match(variant, p, hdg, dist_thr, head_thr, num_candidates) ==
    /\ Quiescent
    /\ \E cand \in { Candidates(variant, Catalog, p, hdg, dist_thr, head_thr,
                                num_candidates) } :
         \E solver \in SolverOutcomes :
            ret' = [ op |-> "find_nearest_route_with_heading",
                     variant |-> variant, lon_lat |-> p, heading |-> hdg,
                     distance_threshold |-> dist_thr,
                     heading_threshold |-> head_thr,
                     num_candidates |-> num_candidates,
                     solver |-> solver,
                     candidates |-> cand,
                     result |-> Outcome(variant, p, solver, cand) ]
    /\ UNCHANGED << catalogVars, pc, searchVars, walk >>

\* A call of RouteFinder.find_nearest_route.
\* The direction test of get_next_waypoints_internal, taken of a vessel
\* heading and a segment heading.
DirectionTest(hdg, segment_heading) ==
    /\ Quiescent
    /\ ret' = [ op |-> "direction_test", heading |-> hdg,
                segment_heading |-> segment_heading,
                result |-> [ status |-> "ok",
                             reverse |-> ReverseTest(hdg, segment_heading) ] ]
    /\ UNCHANGED << catalogVars, pc, searchVars, walk >>

\* A direct call of calculate_heading.
Heading(start_coord, end_coord) ==
    /\ Quiescent
    /\ ret' = [ op |-> "calculate_heading", start_coord |-> start_coord,
                end_coord |-> end_coord,
                result |-> [ status |-> "ok",
                             heading |-> CalculateHeading(start_coord, end_coord) ] ]
    /\ UNCHANGED << catalogVars, pc, searchVars, walk >>

\* The matcher's heading difference, taken of a vessel heading and a route
\* heading, and of the two the other way round.
HeadingDifference(h1, h2) ==
    /\ Quiescent
    /\ ret' = [ op |-> "heading_diff", h1 |-> h1, h2 |-> h2,
                result |-> [ status |-> "ok",
                             difference |-> CircularDifference(h1, h2),
                             swapped |-> CircularDifference(h2, h1) ] ]
    /\ UNCHANGED << catalogVars, pc, searchVars, walk >>

\* A faulty get_route_by_id: the lane looked up is taken off the Major list.
RouteByIdPopping(route_id, route_type) ==
    /\ Quiescent
    /\ ret' = [ op |-> "get_route_by_id", route_id |-> route_id, route_type |-> route_type,
                result |-> [ status |-> "ok",
                             route |-> GetRouteById(Catalog, route_id, route_type) ] ]
    /\ major' = IF major = << >> THEN major ELSE Tail(major)
    /\ UNCHANGED << middle, minor, major_idx, middle_idx, minor_idx, pc, searchVars, walk >>

\* A direct call of get_route_by_id.
RouteById(route_id, route_type) ==
    /\ Quiescent
    /\ ret' = [ op |-> "get_route_by_id", route_id |-> route_id, route_type |-> route_type,
                result |-> [ status |-> "ok",
                             route |-> GetRouteById(Catalog, route_id, route_type) ] ]
    /\ UNCHANGED << catalogVars, pc, searchVars, walk >>

\* A direct call of get_next_waypoints_internal.
NextWaypoints(coords, point, hdg, num_waypoints) ==
    /\ Quiescent
    /\ ret' = [ op |-> "get_next_waypoints_internal", coords |-> coords,
                point |-> point, heading |-> hdg, num_waypoints |-> num_waypoints,
                result |-> [ status |-> "ok",
                             waypoints |-> GetNextWaypointsInternal(coords, point, hdg,
                                                                    num_waypoints) ] ]
    /\ UNCHANGED << catalogVars, pc, searchVars, walk >>

NearestRoute(p, dist_thr, num_candidates, all_routes) ==
    /\ Quiescent
    /\ ret' = [ op |-> "find_nearest_route", lon_lat |-> p,
                distance_threshold |-> dist_thr,
                num_candidates |-> num_candidates, all_routes |-> all_routes,
                result |-> FindNearestRoute(Catalog, p, dist_thr, num_candidates,
                                            all_routes) ]
    /\ UNCHANGED << catalogVars, pc, searchVars, walk >>

\* A call of _find_single_route on one class of a loaded catalog.
SingleRoute(t, p, dist_thr, num_candidates) ==
    /\ Quiescent
    /\ ClassIndex(Catalog, t).built
    /\ ret' = [ op |-> "find_single_route", route_type |-> t, lon_lat |-> p,
                distance_threshold |-> dist_thr,
                num_candidates |-> num_candidates,
                result |-> FindSingleRoute(ClassIndex(Catalog, t),
                                           ClassRoutes(Catalog, t), p, dist_thr,
                                           num_candidates) ]
    /\ UNCHANGED << catalogVars, pc, searchVars, walk >>

\* A faulty advance: the destination is computed and dropped.
AdvanceDropped(point, hdg) == point

\* geodesic(nautical=10).destination((lat, lon), heading) for heading 90 / 270.
Advance(point, hdg) ==
    LET step == (ADVANCE_NM * UnitsPerDegree) \div DEG_TO_NM
        lon == point[1] + (IF hdg = 90 THEN step ELSE -step)
    IN << ((lon + HalfTurn) % (2 * HalfTurn)) - HalfTurn, point[2] >>

\* get_next_waypoints_with_speed_and_heading_unknown_route: entry.
SearchStart(p, hdg, speed_knot, time_hrs, num_waypoints) ==
    /\ Quiescent
    /\ pc' = "searching"
    /\ ret' = Running
    /\ args' = [ lon_lat |-> p, heading |-> hdg, speed_knot |-> speed_knot,
                 time_hrs |-> time_hrs, num_waypoints |-> num_waypoints ]
    /\ current' = p
    /\ distance_threshold' = INITIAL_DISTANCE_THRESHOLD
    /\ heading_threshold' = INITIAL_HEADING_THRESHOLD
    /\ attempts' = 0
    /\ solver_calls' = 0
    /\ UNCHANGED << catalogVars, walk >>

\* The classes' candidates of one pass of "while not route".
SearchCandidates ==
    Candidates(BETTER, Catalog, current, args.heading, distance_threshold,
               heading_threshold, DEFAULT_NUM_CANDIDATES)

\* A pass that finds no route: move on and widen the thresholds.
SearchRetry ==
    /\ pc = "searching"
    /\ \E cand \in { SearchCandidates } :
         Outcome(BETTER, current, "raise", cand).status = "none"
    /\ current' = Advance(current, args.heading)
    /\ distance_threshold' =
           Min2(distance_threshold + DISTANCE_THRESHOLD_STEP, MAX_DISTANCE_THRESHOLD)
    /\ heading_threshold' =
           Min2(heading_threshold + HEADING_THRESHOLD_STEP, MAX_HEADING_THRESHOLD)
    /\ attempts' = Min2(attempts + 1, AttemptsCap)
    /\ UNCHANGED << catalogVars, pc, ret, args, solver_calls, walk >>

\* What the function hands back, or raises, once the matcher has answered
\* with a route or an exception.
SearchResult(route, w, seen) ==
    IF route.status = "raise"
    THEN [ op |-> "unknown_route", status |-> "raise", error |-> route.error,
           seen |-> seen ]
    ELSE IF w.status # "ok"
    THEN [ op |-> "unknown_route", status |-> "raise", error |-> w.status,
           seen |-> seen ]
    ELSE [ op |-> "unknown_route", status |-> "ok", seen |-> seen,
           best |-> route.best,
           plans |-> << [ current_position |-> args.lon_lat,
                          current_heading |-> args.heading,
                          current_speed |-> args.speed_knot,
                          waypoints |-> w.waypoints,
                          observed_hrs |-> args.time_hrs,
                          num_observations |-> args.num_waypoints,
                          route_start |-> route.coordinates[1],
                          route_end |-> route.coordinates[Len(route.coordinates)] ] >> ]

\* A pass that finds a route, or raises: the rest of the function.
SearchReturn ==
    /\ pc = "searching"
    /\ \E cand \in { SearchCandidates } :
         \E solver \in SolverOutcomes :
            \E route \in { Outcome(BETTER, current, solver, cand) } :
               /\ route.status # "none"
               /\ ret' = SearchResult(route,
                             BetterGetWaypoints(route.coordinates, args.speed_knot,
                                                args.time_hrs, args.num_waypoints),
                             [ args |-> args, attempts |-> attempts,
                               query_point |-> current,
                               distance_threshold |-> distance_threshold,
                               heading_threshold |-> heading_threshold,
                               solver |-> solver,
                               solver_calls |-> solver_calls + route.solver_calls ])
    /\ pc' = "idle"
    /\ SearchIdle
    /\ UNCHANGED << catalogVars, walk >>

\* A call of BetterRouteFinder.get_waypoints.
BetterWaypoints(coords, speed_knot, time_hrs, num_waypoints) ==
    /\ Quiescent
    /\ ret' = [ op |-> "better_get_waypoints", coords |-> coords,
                speed_knot |-> speed_knot, time_hrs |-> time_hrs,
                num_waypoints |-> num_waypoints,
                result |-> BetterGetWaypoints(coords, speed_knot, time_hrs,
                                              num_waypoints) ]
    /\ UNCHANGED << catalogVars, pc, searchVars, walk >>

\* WaypointCalculator.get_waypoints: entry, one pass of the loop, return.
WalkCall(coords, speed_knot, time_hrs, num_waypoints) ==
    /\ Quiescent
    /\ pc' = "walking"
    /\ ret' = Running
    /\ walk' = WalkStart(coords, speed_knot, time_hrs, num_waypoints)
    /\ UNCHANGED << catalogVars, searchVars >>

WalkStep ==
    /\ pc = "walking"
    /\ WalkContinues(walk)
    /\ \E rounding \in Roundings :
         LET r == WalkBody(walk, rounding)
         IN IF r.status = "ok"
            THEN /\ walk' = r.walk
                 /\ UNCHANGED << pc, ret >>
            ELSE /\ walk' = NoWalk
                 /\ pc' = "idle"
                 /\ ret' = [ op |-> "get_waypoints", status |-> "raise",
                             error |-> r.status, call |-> walk ]
    /\ UNCHANGED << catalogVars, searchVars >>

WalkReturn ==
    /\ pc = "walking"
    /\ ~ WalkContinues(walk)
    /\ pc' = "idle"
    /\ ret' = [ op |-> "get_waypoints", status |-> "ok", call |-> walk,
                waypoints |-> walk.waypoints ]
    /\ walk' = NoWalk
    /\ UNCHANGED << catalogVars, searchVars >>

\* A call of PortFinder.is_near_port; the feature query answers from the
\* world's ports, or fails.
PortQuery(p, outcome) ==
    /\ Quiescent
    /\ outcome = "found" => PortAdjacent(p, PORT_DISTANCE_THRESHOLD)
    /\ outcome = "empty" => ~ PortAdjacent(p, PORT_DISTANCE_THRESHOLD)
    /\ ret' = [ op |-> "is_near_port", lon_lat |-> p, outcome |-> outcome,
                result |-> IsNearPort(outcome) ]
    /\ UNCHANGED << catalogVars, pc, searchVars, walk >>

\* The caller takes the result of the finished call and goes on.
Resume ==
    /\ pc = "idle"
    /\ ret # Idle
    /\ ret' = Idle
    /\ UNCHANGED << catalogVars, pc, searchVars, walk >>

Next ==
    \/ \E features \in FeatureLists, fault \in { "none", "http", "json" } :
           LoadData(features, fault)
    \/ \E variant \in Variants, p \in QueryPoints, hdg \in QueryHeadings,
          dist_thr \in DistanceThresholds, head_thr \in HeadingThresholds,
          num_candidates \in CandidateCounts :
           Match(variant, p, hdg, dist_thr, head_thr, num_candidates)
    \/ \E p \in QueryPoints, dist_thr \in NearestThresholds,
          num_candidates \in CandidateCounts, all_routes \in BOOLEAN :
           NearestRoute(p, dist_thr, num_candidates, all_routes)
    \/ \E t \in { MAJOR, MIDDLE, MINOR }, p \in QueryPoints,
          dist_thr \in NearestThresholds, num_candidates \in CandidateCounts :
           SingleRoute(t, p, dist_thr, num_candidates)
    \/ \E coords \in VertexPaths, point \in VertexPoints, hdg \in QueryHeadings,
          num_waypoints \in VertexCounts :
           NextWaypoints(coords, point, hdg, num_waypoints)
    \/ \E route_id \in RouteIds, route_type \in RouteTypeArgs :
           RouteById(route_id, route_type)
    \/ \E h1 \in SampleHeadings, h2 \in SampleHeadings :
           HeadingDifference(h1, h2)
    \/ \E start_coord \in HeadingCoords, end_coord \in HeadingCoords :
           Heading(start_coord, end_coord)
    \/ \E hdg \in SampleHeadings, segment_heading \in SampleHeadings :
           DirectionTest(hdg, segment_heading)
    \/ \E p \in SearchPoints, hdg \in SearchHeadings :
           SearchStart(p, hdg, 10, 1, 2)
    \/ SearchRetry
    \/ SearchReturn
    \/ \E coords \in WalkPaths, speed_knot \in Speeds, time_hrs \in Durations,
          num_waypoints \in Counts :
           BetterWaypoints(coords, speed_knot, time_hrs, num_waypoints)
    \/ \E coords \in WalkPaths, speed_knot \in Speeds, time_hrs \in Durations,
          num_waypoints \in Counts :
           WalkCall(coords, speed_knot, time_hrs, num_waypoints)
    \/ WalkStep
    \/ WalkReturn
    \/ \E p \in QueryPoints \cup PortSites, outcome \in PortQueryOutcomes :
           PortQuery(p, outcome)
    \/ Resume

Spec == Init /\ [][Next]_vars

\* The program is sequential: a call in progress takes its next step, be it
\* another pass of its loop or its return, and the caller goes on once the
\* call is over.  For the search this is WF_vars(SearchRetry \/ SearchReturn)
\* with its ENABLED written out: the matcher always answers, so one of the
\* two steps is possible exactly when pc = "searching".
FairSpec ==
    /\ Spec
    /\ WF_vars(WalkStep) /\ WF_vars(WalkReturn) /\ WF_vars(Resume)
    /\ \/ []<>(pc # "searching")
       \/ []<><<SearchRetry \/ SearchReturn>>_vars

(***************************************************************************)
(* Properties                                                              *)
(***************************************************************************)
\* C1: every call of get_next_waypoints_with_speed_and_heading_unknown_route
\* comes to an end, for every catalog and every input: a search that finds no
\* lane on any attempt stops after a bounded number of attempts instead of
\* looping forever.
C1_SearchTerminates == (pc = "searching") ~> (pc = "idle")

\* What the properties speak of: the lanes of the catalog, with their class.
AllLanes ==
    UNION { { [ route_type |-> RouteTypes[t], route_id |-> i,
                coords |-> ClassRoutes(Catalog, RouteTypes[t])[i] ] :
                i \in 1 .. Len(ClassRoutes(Catalog, RouteTypes[t])) } :
            t \in 1 .. 3 }
IndicesBuilt == major_idx.built /\ middle_idx.built /\ minor_idx.built
MatchReturned == ret.op = "find_nearest_route_with_heading"
SearchReturned == ret.op = "unknown_route"

\* The query heading is at right angles to every segment of every lane.
Perpendicular(hdg) ==
    \A lane \in AllLanes : \A i \in 1 .. (Len(lane.coords) - 1) :
        CircularDifference(hdg, CalculateHeading(lane.coords[i], lane.coords[i + 1]))
          = 90

\* C2: with the indices built, a query heading perpendicular to every lane and
\* a heading threshold below 90 give no match, in all three matchers, whatever
\* the distance threshold and wherever the point projects onto a lane.
C2_PerpendicularIsNone ==
    ( MatchReturned /\ IndicesBuilt /\ AllLanes # {}
      /\ ret.heading_threshold < 90 /\ Perpendicular(ret.heading) )
        => ret.result.status = "none"

\* The lane a candidate was taken from, and whether a vessel at the candidate's
\* projected point with heading hdg runs with the lane (first vertex to last)
\* or against it, judged on the segment the point projects onto.
LaneOf(c) == GetRouteById(Catalog, c.route_id, c.route_type)
SegmentAt(c) ==
    CurrentSegmentIdx(LaneOf(c), Project(LaneOf(c), c.nearest_point).proj_distance)
WithLane(c, hdg) ==
    CircularDifference(hdg, CalculateHeading(LaneOf(c)[SegmentAt(c) + 1],
                                             LaneOf(c)[SegmentAt(c) + 2])) < 90
AgainstLane(c, hdg) ==
    CircularDifference(hdg, CalculateHeading(LaneOf(c)[SegmentAt(c) + 1],
                                             LaneOf(c)[SegmentAt(c) + 2])) > 90

\* C3: an accepted candidate's ending_point is the end of the lane the vessel
\* heads toward and its starting_point the other end: the last vertex for a
\* vessel running with the lane, the first vertex for one running against it.
C3_EndingPointAhead ==
    MatchReturned =>
      \A i \in 1 .. 3 :
        LET c == ret.candidates[i]
        IN c.status = "accepted" =>
             /\ WithLane(c, ret.heading) =>
                  /\ c.ending_point = LaneOf(c)[Len(LaneOf(c))]
                  /\ c.starting_point = LaneOf(c)[1]
             /\ AgainstLane(c, ret.heading) =>
                  /\ c.ending_point = LaneOf(c)[1]
                  /\ c.starting_point = LaneOf(c)[Len(LaneOf(c))]

\* C4: neither get_waypoints returns more waypoints than num_waypoints.
C4_AtMostRequested ==
    /\ ( ret.op = "get_waypoints" /\ ret.status = "ok" )
         => Len(ret.waypoints) <= ret.call.num_waypoints
    /\ ( ret.op = "better_get_waypoints" /\ ret.result.status = "ok" )
         => Len(ret.result.waypoints) <= ret.num_waypoints

\* A path whose vertices lie on one parallel or one meridian and never turn
\* back, its length L in nautical miles, and floor(L / S).
Straight(coords) ==
    /\ \/ \A i \in 1 .. Len(coords) : coords[i][2] = coords[1][2]
       \/ \A i \in 1 .. Len(coords) : coords[i][1] = coords[1][1]
    /\ CumulativeLength(coords, Len(coords) - 1)
         = SegmentLength(coords[1], coords[Len(coords)])
PathNm(coords) ==
    (CumulativeLength(coords, Len(coords) - 1) * DEG_TO_NM) \div UnitsPerDegree
FloorLS(call) == PathNm(call.coords) \div (call.speed_knot * call.time_hrs)

\* C5: on a straight path of length L, with spacing S = speed * duration > 0,
\* WaypointCalculator.get_waypoints returns exactly floor(L / S) waypoints when
\* at least that many are requested, exact multiples of S included.
C5_FloorOfLengthOverSpacing ==
    ( ret.op = "get_waypoints" /\ ret.status = "ok"
      /\ Straight(ret.call.coords)
      /\ ret.call.speed_knot * ret.call.time_hrs > 0
      /\ ret.call.num_waypoints >= FloorLS(ret.call) )
        => Len(ret.waypoints) = FloorLS(ret.call)

\* Where n advances of 10 nm along hdg (90 or 270) from p lead, short of the
\* antimeridian.
AdvancedBy(p, hdg, n) ==
    << p[1] + (IF hdg = 90 THEN 1 ELSE -1) * n * ADVANCE_NM, p[2] >>

\* C6: a search starts at thresholds 5 and 5; after n failed attempts it asks
\* with distance_threshold = min(5 + 25n, 100) and heading_threshold =
\* min(5 + 5n, 45) at the point advanced n times 10 nm along the unchanged
\* heading; the thresholds never decrease within a search and never exceed
\* 100 and 45.
C6_Escalation ==
    /\ [] ( pc = "searching" =>
              /\ distance_threshold
                   = Min2(INITIAL_DISTANCE_THRESHOLD + DISTANCE_THRESHOLD_STEP * attempts,
                          MAX_DISTANCE_THRESHOLD)
              /\ heading_threshold
                   = Min2(INITIAL_HEADING_THRESHOLD + HEADING_THRESHOLD_STEP * attempts,
                          MAX_HEADING_THRESHOLD)
              /\ distance_threshold <= 100 /\ heading_threshold <= 45
              /\ attempts < AttemptsCap =>
                   current = AdvancedBy(args.lon_lat, args.heading, attempts) )
    /\ [][ ( pc = "searching" /\ pc' = "searching" ) =>
             /\ distance_threshold' >= distance_threshold
             /\ heading_threshold' >= heading_threshold
             /\ args' = args ]_vars

\* C6's case: a search that has failed three times and asks a fourth time.
C6_Witness ==
    /\ pc = "searching" /\ attempts = 3
    /\ distance_threshold = 80 /\ heading_threshold = 20
    /\ current = AdvancedBy(args.lon_lat, args.heading, 3)

\* The lane of the catalog one of whose ends is p, other than the lane of
\* candidate c: the lane chained to c's lane at p.
ChainedAt(p, c) ==
    \E lane \in AllLanes :
        /\ lane.coords # LaneOf(c)
        /\ p \in { lane.coords[1], lane.coords[Len(lane.coords)] }

\* C7: chaining stops at the first port-adjacent terminus and not before: the
\* last plan returned ends at a port-adjacent terminus whenever a further lane
\* is chained to its route_end, so that two chained lanes of which only the
\* second ends at a port give two plans.
C7_ChainsUntilPort ==
    ( SearchReturned /\ ret.status = "ok" )
        => LET last == ret.plans[Len(ret.plans)]
           IN \/ PortAdjacent(last.route_end, PORT_DISTANCE_THRESHOLD)
              \/ ~ ChainedAt(last.route_end, ret.best)

\* C8: on a catalog whose indices have not been built the matcher of
\* BetterRouteFinder and of maritime.RouteFinder returns none and does not
\* raise; a built but empty index gives no candidate for its class.
C8_UnbuiltIsNone ==
    MatchReturned =>
      /\ ( ret.variant \in { BETTER, MARITIME }
           /\ ~ major_idx.built /\ ~ middle_idx.built /\ ~ minor_idx.built )
             => ret.result.status = "none"
      /\ \A i \in 1 .. 3 :
           ( ClassIndex(Catalog, RouteTypes[i]).built
             /\ ClassRoutes(Catalog, RouteTypes[i]) = << >> )
               => ret.candidates[i].status = "none"

\* Some class gave the call an accepted candidate / the call met an index
\* that was not built.
Accepted(cand) == \E i \in 1 .. 3 : cand[i].status = "accepted"
MetUnbuilt(cand) == \E i \in 1 .. 3 : cand[i].status = "AttributeError"

\* C9: the matcher calls the solver at most once, only with an accepted
\* candidate, from the query point to the best candidate's ending_point; with
\* no accepted candidate it returns none without calling it; a solver
\* exception leaves the matcher and the search as it is, with no second call.
C9_SolverOnce ==
    /\ MatchReturned =>
         /\ ret.result.solver_calls <= 1
         /\ ret.result.solver_calls = 1 =>
              /\ Accepted(ret.candidates)
              /\ ret.result.solver_origin = ret.lon_lat
              /\ ret.result.solver_destination = ret.result.best.ending_point
         /\ ( ~ Accepted(ret.candidates) /\ ~ MetUnbuilt(ret.candidates) ) =>
              /\ ret.result.status = "none"
              /\ ret.result.solver_calls = 0
         /\ ( ret.variant # ROUTE_FINDER /\ Accepted(ret.candidates)
              /\ ~ MetUnbuilt(ret.candidates) /\ ret.solver = "raise" ) =>
              /\ ret.result.status = "raise"
              /\ ret.result.error = "SolverError"
              /\ ret.result.solver_calls = 1
    /\ SearchReturned =>
         /\ ret.seen.solver_calls <= 1
         /\ ret.seen.solver = "raise" =>
              /\ ret.status = "raise"
              /\ ret.error = "SolverError" => ret.seen.solver_calls = 1
    /\ pc = "searching" => solver_calls = 0

\* C9's case: a match whose solver call raised, out of the matcher and out of
\* a search that had retried before.
C9_Witness ==
    \/ /\ MatchReturned /\ Accepted(ret.candidates) /\ ret.solver = "raise"
       /\ ret.result.status = "raise" /\ ret.result.solver_calls = 1
       /\ ret.variant = BETTER
    \/ /\ SearchReturned /\ ret.status = "raise" /\ ret.error = "SolverError"
       /\ ret.seen.attempts > 0

\* C10: is_near_port never raises: False when the feature query fails with
\* any exception, otherwise True exactly when the result is non-empty.
C10_PortCheckTotal ==
    ret.op = "is_near_port" =>
      /\ ret.result.status = "ok"
      /\ ret.outcome \in { "InsufficientResponseError", "Exception" }
           => ret.result.value = FALSE
      /\ ret.outcome = "found" => ret.result.value = TRUE
      /\ ret.outcome = "empty" => ret.result.value = FALSE

\* C10's case: the feature query failed with an exception other than
\* InsufficientResponseError and the answer is False.
C10_Witness ==
    /\ ret.op = "is_near_port" /\ ret.outcome = "Exception"
    /\ ret.result.status = "ok" /\ ret.result.value = FALSE

\* What class i (1 Major, 2 Middle, 3 Minor) gives a nearest-lane call for the
\* point, threshold and candidate count of the last call.
ClassHit(i) ==
    FindSingleRoute(ClassIndex(Catalog, RouteTypes[i]), ClassRoutes(Catalog, RouteTypes[i]),
                    ret.lon_lat, ret.distance_threshold, ret.num_candidates)
ClassesHit == { i \in 1 .. 3 : ClassHit(i).status = "found" }
FromClass(result, i) ==
    /\ result.status = "found"
    /\ result.route_type = RouteTypes[i]
    /\ result.route_id = ClassHit(i).route_id
    /\ result.distance2 = ClassHit(i).distance2

\* C11: on a loaded catalog find_nearest_route returns none exactly when no
\* class has a candidate within the threshold; with all_routes false it returns
\* the nearest lane of the first class (Major, Middle, Minor) that has one, even
\* if a later class has a closer lane; with all_routes true it returns the lane
\* of least distance over the classes, the earlier class on an exact tie.
C11_NearestByPriority ==
    ( ret.op = "find_nearest_route" /\ IndicesBuilt ) =>
        /\ ret.result.status = "none" <=> ClassesHit = {}
        /\ ( ClassesHit # {} /\ ~ ret.all_routes ) =>
              FromClass(ret.result, CHOOSE i \in ClassesHit : \A j \in ClassesHit : i <= j)
        /\ ( ClassesHit # {} /\ ret.all_routes ) =>
              FromClass(ret.result,
                        CHOOSE i \in ClassesHit : \A j \in ClassesHit :
                            \/ ClassHit(i).distance2 < ClassHit(j).distance2
                            \/ ClassHit(i).distance2 = ClassHit(j).distance2 /\ i <= j)

\* C11's case: with all_routes false a Major lane is returned although a
\* Middle lane within the threshold is strictly closer.
C11_Witness ==
    /\ ret.op = "find_nearest_route" /\ IndicesBuilt /\ ~ ret.all_routes
    /\ ret.result.status = "found" /\ ret.result.route_type = MAJOR
    /\ 2 \in ClassesHit /\ ClassHit(2).distance2 < ret.result.distance2

\* The candidates of the last _find_single_route call and their distances
\* (squared, in nautical miles) from the query point.
SingleCandidates == Nearest(ClassIndex(Catalog, ret.route_type), ret.lon_lat, ret.num_candidates)
SingleDistance2(i) == Project(ClassRoutes(Catalog, ret.route_type)[i], ret.lon_lat).distance2
SingleAt(threshold) ==
    FindSingleRoute(ClassIndex(Catalog, ret.route_type), ClassRoutes(Catalog, ret.route_type),
                    ret.lon_lat, threshold, ret.num_candidates)

\* C12: _find_single_route returns a lane exactly when the least distance d
\* over the class's candidates is at most the threshold (d equal to the
\* threshold matches); the distance returned is d; and a call that matches
\* still matches, with the same lane, at every larger threshold.
C12_ThresholdInclusive ==
    ret.op = "find_single_route" =>
        /\ ret.result.status = "found" <=>
              \E i \in SingleCandidates :
                  SingleDistance2(i) <= ret.distance_threshold * ret.distance_threshold
        /\ ret.result.status = "found" =>
              /\ ret.result.route_id \in SingleCandidates
              /\ ret.result.distance2 = SingleDistance2(ret.result.route_id)
              /\ \A i \in SingleCandidates : ret.result.distance2 <= SingleDistance2(i)
              /\ \A larger \in NearestThresholds :
                    larger >= ret.distance_threshold =>
                        /\ SingleAt(larger).status = "found"
                        /\ SingleAt(larger).route_id = ret.result.route_id
                        /\ SingleAt(larger).distance2 = ret.result.distance2

\* C12's case: a lane exactly at the threshold is returned although another
\* candidate of the class is farther than the threshold.
C12_Witness ==
    /\ ret.op = "find_single_route" /\ ret.result.status = "found"
    /\ ret.result.distance2 = ret.distance_threshold * ret.distance_threshold
    /\ ret.distance_threshold > 0
    /\ \E i \in SingleCandidates : SingleDistance2(i) > ret.result.distance2

\* Candidates i and j of the last matcher call have exactly equal scores.
EqualScores(i, j) ==
    /\ ~ ScoreLess(ret.candidates[i], ret.candidates[j])
    /\ ~ ScoreLess(ret.candidates[j], ret.candidates[i])
AcceptedClasses == { i \in 1 .. 3 : ret.candidates[i].status = "accepted" }

\* C13: the candidate the matcher selects is an accepted one, no accepted
\* candidate has a lower score (heading_diff * 0.9 + distance_nm * 0.1) / 2,
\* and every accepted candidate with exactly the same score is of a later class
\* in the order Major, Middle, Minor.
C13_LowestScoreFirstClass ==
    ( MatchReturned /\ ~ MetUnbuilt(ret.candidates) /\ AcceptedClasses # {} ) =>
        \E i \in AcceptedClasses :
            /\ ret.result.best = ret.candidates[i]
            /\ \A j \in AcceptedClasses : ~ ScoreLess(ret.candidates[j], ret.candidates[i])
            /\ \A j \in AcceptedClasses : ( j # i /\ EqualScores(i, j) ) => i < j

\* C13's case: two classes are accepted with exactly equal scores and the one
\* of the earlier class is selected.
C13_Witness ==
    /\ MatchReturned /\ ~ MetUnbuilt(ret.candidates)
    /\ \E i \in AcceptedClasses : \E j \in AcceptedClasses :
          /\ i < j /\ EqualScores(i, j)
          /\ ret.result.best = ret.candidates[i]
          /\ ret.candidates[i].route_type # ret.candidates[j].route_type

\* The point of the last get_next_waypoints_internal call projects strictly
\* inside segment i of its path (0-based, between v_i and v_(i+1)).
InsideSegment(i) ==
    LET q == Project(ret.coords, ret.point).nearest_point
    IN /\ NearestOnSegment(ret.coords[i + 1], ret.coords[i + 2], q) = q
       /\ q # ret.coords[i + 1] /\ q # ret.coords[i + 2]
SegmentBearingDiff(i) ==
    CircularDifference(ret.heading, CalculateHeading(ret.coords[i + 1], ret.coords[i + 2]))

\* C14: for a point that projects strictly inside segment i of a path of n
\* vertices and a count c, get_next_waypoints_internal returns v_(i+1),
\* v_(i+2), ... up to min(c, n-1-i) vertices when the heading is within 90
\* degrees of the segment's bearing, v_i, v_(i-1), ... up to min(c, i+1)
\* vertices when it is more than 90 degrees off; never more than c vertices.
C14_NextVertices ==
    ret.op = "get_next_waypoints_internal" =>
        \A i \in 0 .. (Len(ret.coords) - 2) :
            InsideSegment(i) =>
                /\ Len(ret.result.waypoints) <= ret.num_waypoints
                /\ SegmentBearingDiff(i) < 90 =>
                      ret.result.waypoints = [ j \in 1 .. Min2(ret.num_waypoints, Len(ret.coords) - 1 - i)
                                       |-> ret.coords[i + 1 + j] ]
                /\ SegmentBearingDiff(i) > 90 =>
                      ret.result.waypoints = [ j \in 1 .. Min2(ret.num_waypoints, i + 1)
                                       |-> ret.coords[i + 2 - j] ]

\* C14's case: travelling in reverse from inside the second segment with a
\* count of three, the two vertices behind are returned and no more.
C14_Witness ==
    /\ ret.op = "get_next_waypoints_internal" /\ ret.num_waypoints = 3
    /\ InsideSegment(1) /\ SegmentBearingDiff(1) > 90
    /\ ret.result.waypoints = << ret.coords[2], ret.coords[1] >>

\* The catalog holds one lane, and it is straight; the bearing of a straight
\* lane, from its first vertex to its last.
SingleStraightLane ==
    /\ Cardinality(AllLanes) = 1
    /\ \A lane \in AllLanes : Straight(lane.coords)
LaneBearing(lane) == CalculateHeading(lane.coords[1], lane.coords[Len(lane.coords)])

\* C15: with a single straight lane in the catalog, a query point within the
\* distance threshold of it and a heading equal to the lane's bearing or to its
\* reverse, the matcher accepts that lane with a heading_diff within the heading
\* threshold, wherever the point projects onto the lane (inside a segment, on
\* an interior vertex, on the first or on the last vertex).
C15_AlongLaneMatched ==
    ( MatchReturned /\ IndicesBuilt /\ SingleStraightLane ) =>
        \A lane \in AllLanes :
            ( /\ Project(lane.coords, ret.lon_lat).distance2
                    <= ret.distance_threshold * ret.distance_threshold
              /\ \/ ret.heading = LaneBearing(lane)
                 \/ ret.heading = (LaneBearing(lane) + 180) % FULL_CIRCLE ) =>
                \E i \in 1 .. 3 :
                    /\ ret.candidates[i].status = "accepted"
                    /\ ret.candidates[i].route_type = lane.route_type
                    /\ ret.candidates[i].route_id = lane.route_id
                    /\ ret.candidates[i].heading_diff <= ret.heading_threshold

\* The three lists one after the other, in class order.
AllRoutesInOrder == major \o middle \o minor

\* C16: get_route_by_id with a class returns the lane at position id of that
\* class's list (counting from 1) exactly when the class is Major, Middle or
\* Minor and 1 <= id <= the class's count, none otherwise; with no class it
\* returns the lane at position id of the Major, Middle and Minor lists taken
\* one after the other, so that ids 1..total meet every position once, and
\* none for every other id, ids <= 0 included.
C16_RouteById ==
    ret.op = "get_route_by_id" =>
        IF ret.route_type \in { MAJOR, MIDDLE, MINOR }
        THEN ret.result.route =
               IF 1 <= ret.route_id /\ ret.route_id <= Len(ClassRoutes(Catalog, ret.route_type))
               THEN ClassRoutes(Catalog, ret.route_type)[ret.route_id]
               ELSE NoRoute
        ELSE IF Truthy(ret.route_type)
        THEN ret.result.route = NoRoute
        ELSE ret.result.route =
               IF 1 <= ret.route_id /\ ret.route_id <= Len(AllRoutesInOrder)
               THEN AllRoutesInOrder[ret.route_id]
               ELSE NoRoute

\* C16's case: with no class and a non-empty Major list, an id beyond the
\* Major count resolves to a lane of a later class.
C16_Witness ==
    /\ ret.op = "get_route_by_id" /\ ret.route_type = None
    /\ Len(major) > 0 /\ ret.route_id > Len(major)
    /\ ret.result.route # NoRoute
    /\ ret.result.route = AllRoutesInOrder[ret.route_id]

\* C17: for headings h1, h2 in [0, 360) the matcher's heading difference
\* min(|h1 - h2|, 360 - |h1 - h2|) is the same with its arguments exchanged and
\* lies in [0, 180].
C17_DifferenceSymmetricBounded ==
    ( ret.op = "heading_diff"
      /\ 0 <= ret.h1 /\ ret.h1 < FULL_CIRCLE /\ 0 <= ret.h2 /\ ret.h2 < FULL_CIRCLE ) =>
        /\ ret.result.difference = ret.result.swapped
        /\ 0 <= ret.result.difference /\ ret.result.difference <= 180

\* C17's case: two headings more than a half turn apart, the smaller first,
\* whose difference is taken across north.
C17_Witness ==
    /\ ret.op = "heading_diff"
    /\ ret.h2 - ret.h1 > 180
    /\ ret.result.difference = FULL_CIRCLE - (ret.h2 - ret.h1)
    /\ ret.result.difference = ret.result.swapped

\* The last find_nearest_route call repeated with num_candidates candidates.
NearestWith(num_candidates) ==
    FindNearestRoute(Catalog, ret.lon_lat, ret.distance_threshold, num_candidates, ret.all_routes)

\* C18: the distance find_nearest_route reports does not grow with
\* num_candidates: if the call matches, and the same call with a larger
\* num_candidates matches, the latter's distance is not the larger.
C18_MoreCandidatesNotFarther ==
    ( ret.op = "find_nearest_route" /\ IndicesBuilt /\ ret.result.status = "found" ) =>
        \A more \in CandidateCounts :
            ( more >= ret.num_candidates /\ NearestWith(more).status = "found" ) =>
                NearestWith(more).distance2 <= ret.result.distance2

\* The length of the first segment of the last BetterRouteFinder.get_waypoints
\* call as its walk converts it and as the bisection helper converts it, and
\* the call's distance_per_waypoint.
FirstSegmentInWalk == SegmentLengthNm(ret.coords[1], ret.coords[2], BETTER_SEGMENT_NM_X10)
FirstSegmentInBisection == SegmentLengthNm(ret.coords[1], ret.coords[2], 10 * DEG_TO_NM)
BetterSpacing == SpacingNm(ret.speed_knot, ret.time_hrs) \div ret.num_waypoints

\* C19: one degree-to-nautical-mile constant, 60, converts every distance: in
\* BetterRouteFinder.get_waypoints the walk measures a segment as the
\* bisection helper measures its chord, so a first segment that is at least
\* the spacing long at 60 nm per degree carries a waypoint.
C19_OneConversionConstant ==
    ( ret.op = "better_get_waypoints" /\ ret.result.status = "ok" ) =>
        /\ FirstSegmentInWalk = FirstSegmentInBisection
        /\ FirstSegmentInBisection >= BetterSpacing => Len(ret.result.waypoints) >= 1

\* The target of the last calculate_heading call lies due north, east, south
\* or west (0, 90, 180, 270) of the origin, from which the heading is taken.
DueFromOrigin(direction) ==
    /\ ret.start_coord = << 0, 0 >>
    /\ \/ direction = 0 /\ ret.end_coord[1] = 0 /\ ret.end_coord[2] > 0
       \/ direction = 90 /\ ret.end_coord[1] > 0 /\ ret.end_coord[2] = 0
       \/ direction = 180 /\ ret.end_coord[1] = 0 /\ ret.end_coord[2] < 0
       \/ direction = 270 /\ ret.end_coord[1] < 0 /\ ret.end_coord[2] = 0

RECURSIVE PointAlong(_, _, _)
PointAlong(coords, i, d) ==
    IF i >= Len(coords) THEN NoRoute
    ELSE IF d > SegmentLength(coords[i], coords[i + 1])
    THEN PointAlong(coords, i + 1, d - SegmentLength(coords[i], coords[i + 1]))
    ELSE << coords[i][1] + d * (IF coords[i + 1][1] > coords[i][1] THEN 1
                                 ELSE IF coords[i + 1][1] < coords[i][1] THEN -1 ELSE 0),
            coords[i][2] + d * (IF coords[i + 1][2] > coords[i][2] THEN 1
                                 ELSE IF coords[i + 1][2] < coords[i][2] THEN -1 ELSE 0) >>
\* speed_knot * time_hrs nautical miles in grid units.
SpacingUnits(speed_knot, time_hrs) == (speed_knot * time_hrs * UnitsPerDegree) \div DEG_TO_NM
EverySpacing(coords, waypoints, spacing) ==
    \A k \in 1 .. Len(waypoints) : waypoints[k] = PointAlong(coords, 1, k * spacing)

\* C21: in both get_waypoints the spacing is speed_knot * time_hrs nautical
\* miles: the first waypoint lies one spacing along the path from its first
\* vertex and every later one a further spacing along the path, measured
\* across the vertices passed, each on the path.
C21_OneSpacingApart ==
    /\ ( ret.op = "get_waypoints" /\ ret.status = "ok" ) =>
          EverySpacing(ret.call.coords, ret.waypoints,
                       SpacingUnits(ret.call.speed_knot, ret.call.time_hrs))
    /\ ( ret.op = "better_get_waypoints" /\ ret.result.status = "ok" ) =>
          EverySpacing(ret.coords, ret.result.waypoints,
                       SpacingUnits(ret.speed_knot, ret.time_hrs))

\* Every segment of the path has been walked: idx has passed the last vertex,
\* or points at it with the walk standing on it.
PathConsumed(coords, idx, current_coord) ==
    \/ idx >= Len(coords)
    \/ idx = Len(coords) - 1 /\ current_coord = coords[Len(coords)]

\* C22: a get_waypoints walk ends only when the requested number of waypoints
\* has been emitted or every segment of the path has been consumed, closed
\* paths and paths of few, long segments included.
C22_EndsWhenDoneOrExhausted ==
    /\ ( ret.op = "get_waypoints" /\ ret.status = "ok" ) =>
          \/ Len(ret.waypoints) >= ret.call.num_waypoints
          \/ PathConsumed(ret.call.coords, ret.call.idx, ret.call.current_coord)
    /\ ( ret.op = "better_get_waypoints" /\ ret.result.status = "ok" ) =>
          \/ Len(ret.result.waypoints) >= ret.num_waypoints
          \/ ret.result.idx >= Len(ret.coords)

\* Lane i of class t is among the class's candidates for the last matcher
\* call, lies within its distance threshold and, judged as the matcher judges
\* a lane (the heading from the projected point to the next vertex in the
\* direction of travel), within its heading threshold.
CandidateAligned(t, i) ==
    LET lane == ClassRoutes(Catalog, t)[i]
        pr == Project(lane, ret.lon_lat)
        next_points == GetNextWaypointsInternal(lane, pr.nearest_point, ret.heading, 1)
    IN /\ i \in Nearest(ClassIndex(Catalog, t), ret.lon_lat, ret.num_candidates)
       /\ pr.distance2 <= ret.distance_threshold * ret.distance_threshold
       /\ next_points # << >>
       /\ CircularDifference(ret.heading, CalculateHeading(pr.nearest_point, next_points[1]))
            <= ret.heading_threshold

\* C23: the matcher has a match whenever some lane among a class's candidates
\* lies within the distance threshold and within the heading threshold, also
\* when a misaligned lane of the same class is nearer to the point.
C23_AlignedCandidateMatched ==
    ( MatchReturned /\ IndicesBuilt ) =>
        ( ( \E t \in { MAJOR, MIDDLE, MINOR } :
              \E i \in 1 .. Len(ClassRoutes(Catalog, t)) : CandidateAligned(t, i) )
          => Accepted(ret.candidates) )

\* The point of the path onto which the point of the last
\* get_next_waypoints_internal call projects.
ProjectedPoint == Project(ret.coords, ret.point).nearest_point

\* C24: no vertex returned by get_next_waypoints_internal coincides with the
\* projected query point, wherever the projection falls (inside a segment, on
\* an interior vertex, on the first or the last vertex), so a heading to the
\* first returned vertex is never taken between two identical points.
C24_VerticesAhead ==
    ret.op = "get_next_waypoints_internal" =>
        \A j \in 1 .. Len(ret.result.waypoints) :
            ret.result.waypoints[j] # ProjectedPoint

\* The segment the last get_next_waypoints_internal call settled on (0-based).
SettledSegment == CurrentSegmentIdx(ret.coords, Project(ret.coords, ret.point).proj_distance)

\* C25: the direction test (|heading - bearing| > 90 and < 270) is true exactly
\* when the circular difference of heading and bearing exceeds 90, for
\* headings and bearings in [0, 360); a difference of exactly 90 is forward;
\* and get_next_waypoints_internal starts with the settled segment's first
\* vertex exactly when the circular difference to that segment's bearing
\* exceeds 90, with its second vertex otherwise.
C25_ReverseBeyondQuarterTurn ==
    /\ ret.op = "direction_test" =>
          /\ ret.result.reverse <=>
                CircularDifference(ret.heading, ret.segment_heading) > 90
          /\ CircularDifference(ret.heading, ret.segment_heading) = 90 =>
                ~ ret.result.reverse
    /\ ( ret.op = "get_next_waypoints_internal" /\ ret.num_waypoints >= 1 ) =>
          ret.result.waypoints[1] =
              IF CircularDifference(ret.heading,
                                    CalculateHeading(ret.coords[SettledSegment + 1],
                                                     ret.coords[SettledSegment + 2])) > 90
              THEN ret.coords[SettledSegment + 1]
              ELSE ret.coords[SettledSegment + 2]

\* C25's case: heading and bearing differ by 270 or more as numbers, which is
\* a quarter turn or less on the circle, and the test says forward.
C25_Witness ==
    /\ ret.op = "direction_test"
    /\ Abs(ret.heading - ret.segment_heading) >= 270
    /\ CircularDifference(ret.heading, ret.segment_heading) <= 90
    /\ ~ ret.result.reverse

C27_WalkTerminates == (pc = "walking") ~> (pc = "idle")

\* C28: neither get_waypoints raises a division error: whatever the path
\* (consecutive duplicate vertices included), the speed, the duration and the
\* count, the walk returns its list.
C28_WalkNeverDivides ==
    /\ ret.op = "get_waypoints" => ret.status = "ok"
    /\ ret.op = "better_get_waypoints" => ret.result.status = "ok"

\* C29: the route_id of a match of find_nearest_route names the matched lane
\* without its type: get_route_endpoints and the lane lookup of
\* get_next_waypoints, called with that route_id and the type left out, act
\* on the lane of the match's class at that position, as they do when the
\* match's route_type is passed.
C29_RouteIdAlone ==
    (ret.op = "find_nearest_route" /\ ret.result.status = "found") =>
        /\ GetRouteById(Catalog, ret.result.route_id, ret.result.route_type)
              = ClassRoutes(Catalog, ret.result.route_type)[ret.result.route_id]
        /\ GetRouteById(Catalog, ret.result.route_id, None)
              = GetRouteById(Catalog, ret.result.route_id, ret.result.route_type)
        /\ GetRouteEndpoints(Catalog, ret.result.route_id, None)
              = GetRouteEndpoints(Catalog, ret.result.route_id, ret.result.route_type)

\* C30: load_data is all-or-nothing: a call that raises leaves the three lane
\* lists and the three indices as they were before it, and after a call that
\* returns each index holds one entry per lane of its class, at the lane's
\* list position.
C30_LoadAllOrNothing ==
    [][ ret'.op = "load_data" =>
          /\ ret'.status = "raise" => UNCHANGED catalogVars
          /\ ret'.status = "ok" =>
                /\ major_idx' = BuildSpatialIndex(major')
                /\ middle_idx' = BuildSpatialIndex(middle')
                /\ minor_idx' = BuildSpatialIndex(minor')
      ]_vars

====
